---- MODULE Spec2Model ----
(***************************************************************************)
(* PKCS#7 padding (package pkcs7pad): Pad and Unpad over byte buffers.     *)
(*                                                                         *)
(* A Go []byte is modelled as a sequence of integers in 0..255; the Go     *)
(* index k of a buffer is element k+1 of the sequence.  Pad and Unpad are  *)
(* operators translated from the source; the state machine is a caller    *)
(* that picks a buffer and a block size and then runs Pad then Unpad, or   *)
(* Unpad then Pad.                                                         *)
(***************************************************************************)
EXTENDS Integers, Sequences, FiniteSets, TLC

VARIABLES input, size, pc, padIn, padRes, unpadIn, unpadRes

vars == <<input, size, pc, padIn, padRes, unpadIn, unpadRes>>

----------------------------------------------------------------------------
(* Bounds of the explored inputs *)

\* longest arbitrary tail placed after the run of equal bytes
MaxTail == 2

\* byte values the arbitrary parts of a buffer are drawn from
ByteSample == {0, 1, 2, 255}
\* byte values of the run of equal bytes
RunBytes == {1, 255}
\* lengths of the run of equal bytes (0: a short buffer; the others put the
\* buffer's length around the 255 cap of Unpad)
RunLens == {0, 254, 255}
\* block sizes handed to Pad, valid ones and invalid ones
Sizes == {-1, 0, 1, 2, 16, 255, 256}

----------------------------------------------------------------------------
(* Program constants *)

\* largest block size Pad takes (size > 255 panics)
MaxBlockSize == 255
\* smallest block size Pad takes (size < 1 panics)
MinBlockSize == 1
\* most trailing bytes Unpad examines (toCheck := 255)
MaxToCheck == 255
\* number of values of a Go byte: byte(i) is i mod 256
ByteRange == 256

----------------------------------------------------------------------------
(* Helpers standing for Go and library primitives *)

\* Go's conversion byte(i) of a non-negative int
ToByte(i) == i % ByteRange

\* bytes.Repeat([]byte{b}, count)
Repeat(b, count) == [k \in 1..count |-> b]

\* subtle.ConstantTimeLessOrEq(x, y): 1 if x <= y, else 0
ConstantTimeLessOrEq(x, y) == IF x <= y THEN 1 ELSE 0

\* subtle.ConstantTimeByteEq(x, y): 1 if x = y, else 0
ConstantTimeByteEq(x, y) == IF x = y THEN 1 ELSE 0

\* subtle.ConstantTimeSelect(v, x, y): x if v = 1, y if v = 0
ConstantTimeSelect(v, x, y) == IF v = 1 THEN x ELSE y

\* the operator & of Go on the values 0 and 1
BitAnd(a, b) == IF a = 1 /\ b = 1 THEN 1 ELSE 0

\* sequences over S of length at most n
RECURSIVE SeqsUpTo(_, _)
SeqsUpTo(S, n) ==
  IF n = 0 THEN {<<>>}
  ELSE LET shorter == SeqsUpTo(S, n - 1)
       IN  shorter \cup {Append(s, x) : s \in {t \in shorter : Len(t) = n - 1}, x \in S}

Min(a, b) == IF a < b THEN a ELSE b

----------------------------------------------------------------------------
(* Pad *)

\* the guard of Pad off by one at the upper end
PadPanicsOffByOne(sz) == sz < MinBlockSize \/ sz > MaxBlockSize + 1

\* if size < 1 || size > 255 { panic(...) }
PadPanics(sz) == sz < MinBlockSize \/ sz > MaxBlockSize

\* the padding count reduced modulo the size: nothing appended to a buffer
\* whose length already is a multiple of the size
PadCountNoFullBlock(n, sz) == (sz - (n % sz)) % sz

\* the padding count taken to be the remainder itself
PadCountRemainder(n, sz) == n % sz

\* i := size - (len(buf) % size)
PadCount(n, sz) == sz - (n % sz)

\* filler bytes of value zero instead of the count
PadBytesZero(i) == Repeat(0, i)

\* bytes.Repeat([]byte{byte(i)}, i)
PadBytes(i) == Repeat(ToByte(i), i)

\* func Pad(buf []byte, size int) []byte: a panic returns nothing
Pad(b, sz) ==
  IF PadPanics(sz)
  THEN [kind |-> "panic"]
  ELSE [kind |-> "ok", ret |-> b \o PadBytes(PadCount(Len(b), sz))]

----------------------------------------------------------------------------
(* Unpad *)

\* the cap on the examined bytes set to 127
ToCheckLowCap(n) == IF 127 > n THEN n ELSE 127

\* toCheck := 255; if toCheck > len(buf) { toCheck = len(buf) }
ToCheck(n) == IF MaxToCheck > n THEN n ELSE MaxToCheck

\* the in-range test off by one: the last byte of the padding is not examined
LoopBodyOffByOne(b, padLen, i, good) ==
  LET byteRead   == b[Len(b) - i]
      outOfRange == ConstantTimeLessOrEq(padLen, i + 1)
      equal      == ConstantTimeByteEq(padLen, byteRead)
  IN  BitAnd(good, ConstantTimeSelect(outOfRange, 1, equal))

\* the body of the loop: b := buf[len(buf)-1-i]; outOfRange; equal; good &= ...
LoopBody(b, padLen, i, good) ==
  LET byteRead   == b[Len(b) - i]
      outOfRange == ConstantTimeLessOrEq(padLen, i)
      equal      == ConstantTimeByteEq(padLen, byteRead)
  IN  BitAnd(good, ConstantTimeSelect(outOfRange, 1, equal))

\* one iteration of the loop from the loop state st: st.i is the loop
\* counter, st.good the accumulator, st.reads the Go indices of buf read so far
LoopStep(b, padLen, st) ==
  [i     |-> st.i + 1,
   good  |-> LoopBody(b, padLen, st.i, st.good),
   reads |-> Append(st.reads, Len(b) - 1 - st.i)]

\* a loop that leaves at the first iteration that finds good cleared
RECURSIVE UnpadLoopEarlyExit(_, _, _, _)
UnpadLoopEarlyExit(b, padLen, st, hi) ==
  IF st.i >= hi \/ st.good # 1 THEN st
  ELSE IF st.i + 1 = hi THEN LoopStep(b, padLen, st)
  ELSE UnpadLoopEarlyExit(b, padLen,
         UnpadLoopEarlyExit(b, padLen, st, (st.i + hi) \div 2), hi)

\* for ; i < hi; i++ { ... } from the loop state st.  The iterations run in
\* order: first those below the midpoint, then the others from the state the
\* first ones left (the split keeps the evaluation shallow).
RECURSIVE UnpadLoop(_, _, _, _)
UnpadLoop(b, padLen, st, hi) ==
  IF st.i >= hi THEN st
  ELSE IF st.i + 1 = hi THEN LoopStep(b, padLen, st)
  ELSE UnpadLoop(b, padLen, UnpadLoop(b, padLen, st, (st.i + hi) \div 2), hi)

\* the two range checks without the test 1 <= padLen
RangeChecksNoZero(good, padLen, n) ==
  BitAnd(good, ConstantTimeLessOrEq(padLen, n))

\* good &= ConstantTimeLessOrEq(1, padLen); good &= ConstantTimeLessOrEq(padLen, len(buf))
RangeChecks(good, padLen, n) ==
  BitAnd(BitAnd(good, ConstantTimeLessOrEq(1, padLen)),
         ConstantTimeLessOrEq(padLen, n))

\* the returned slice one byte too long
UnpadSliceOffByOne(b, padLen) == SubSeq(b, 1, Len(b) - padLen + 1)

\* buf[:len(buf)-int(padLen)]
UnpadSlice(b, padLen) == SubSeq(b, 1, Len(b) - padLen)

\* func Unpad(buf []byte) ([]byte, error).  ret and err are the two results
\* (a nil slice is the empty sequence), buf the caller's buffer after the call,
\* reads the Go indices of buf the loop read, in order, iters the number of
\* iterations the loop ran.
Unpad(b) ==
  IF Len(b) = 0
  THEN [ret |-> <<>>, err |-> "BadPadding", buf |-> b, reads |-> <<>>, iters |-> 0]
  ELSE LET padLen == b[Len(b)]
           loop   == UnpadLoop(b, padLen, [i |-> 0, good |-> 1, reads |-> <<>>],
                               ToCheck(Len(b)))
           good   == RangeChecks(loop.good, padLen, Len(b))
       IN  IF good # 1
           THEN [ret |-> <<>>, err |-> "BadPadding", buf |-> b,
                 reads |-> loop.reads, iters |-> loop.i]
           ELSE [ret |-> UnpadSlice(b, padLen), err |-> "nil", buf |-> b,
                 reads |-> loop.reads, iters |-> loop.i]

----------------------------------------------------------------------------
(* The caller *)

\* the buffers the caller starts from: at most one arbitrary byte, a run of
\* equal bytes, an arbitrary tail
Inputs ==
  {head \o Repeat(f, k) \o tail :
     head \in {<<>>} \cup {<<x>> : x \in ByteSample}, f \in RunBytes,
     k \in RunLens, tail \in SeqsUpTo(ByteSample, MaxTail)}

NoPad == [kind |-> "none"]
NoUnpad == [ret |-> <<>>, err |-> "none", buf |-> <<>>, reads |-> <<>>, iters |-> 0]

Init ==
  /\ input \in Inputs
  /\ size \in Sizes
  /\ pc = "start"
  /\ padIn = <<>>
  /\ padRes = NoPad
  /\ unpadIn = <<>>
  /\ unpadRes = NoUnpad

\* Pad(input, size)
PadInput ==
  /\ pc = "start"
  /\ padIn' = input
  /\ padRes' = Pad(input, size)
  /\ pc' = IF padRes'.kind = "panic" THEN "padPanic" ELSE "padded"
  /\ UNCHANGED <<input, size, unpadIn, unpadRes>>

\* Unpad(Pad(input, size))
UnpadPadded ==
  /\ pc = "padded"
  /\ unpadIn' = padRes.ret
  /\ unpadRes' = Unpad(padRes.ret)
  /\ pc' = "roundtrip"
  /\ UNCHANGED <<input, size, padIn, padRes>>

\* Unpad(input)
UnpadInput ==
  /\ pc = "start"
  /\ unpadIn' = input
  /\ unpadRes' = Unpad(input)
  /\ pc' = "unpadded"
  /\ UNCHANGED <<input, size, padIn, padRes>>

\* Pad(Unpad(input), size), when Unpad returned no error
PadUnpadded ==
  /\ pc = "unpadded"
  /\ unpadRes.err = "nil"
  /\ padIn' = unpadRes.ret
  /\ padRes' = Pad(unpadRes.ret, size)
  /\ pc' = IF padRes'.kind = "panic" THEN "repadPanic" ELSE "repadded"
  /\ UNCHANGED <<input, size, unpadIn, unpadRes>>

Next == PadInput \/ UnpadPadded \/ UnpadInput \/ PadUnpadded

Spec == Init /\ [][Next]_vars

----------------------------------------------------------------------------
(* Vocabulary of the properties *)

PadCalled == pc \in {"padded", "padPanic", "roundtrip", "repadded", "repadPanic"}
PadReturned == PadCalled /\ padRes.kind = "ok"
UnpadCalled == pc \in {"roundtrip", "unpadded", "repadded", "repadPanic"}
UnpadOk == UnpadCalled /\ unpadRes.err = "nil"

\* the last c bytes of buffer b all have value c (1 <= c <= Len(b))
TrailingRun(b, c) == \A k \in 1..c : b[Len(b) - k + 1] = c

TypeOK ==
  /\ pc \in {"start", "padded", "padPanic", "roundtrip", "unpadded", "repadded", "repadPanic"}
  /\ size \in Sizes
  /\ \A k \in 1..Len(input) : input[k] \in 0..255
  /\ PadReturned => \A k \in 1..Len(padRes.ret) : padRes.ret[k] \in 0..255
  /\ unpadRes.err \in {"none", "nil", "BadPadding"}

----------------------------------------------------------------------------
(* Properties *)

\* C1 (round trip): whenever Pad(input, size) returned and Unpad ran on its
\* result, Unpad returned no error and a byte sequence equal to input.
C1_RoundTrip ==
  pc = "roundtrip" =>
    /\ size \in 1..255
    /\ unpadIn = padRes.ret
    /\ unpadRes.err = "nil"
    /\ unpadRes.ret = input

\* the round trip of a non-empty buffer whose length is a multiple of the size
C1_Witness ==
  /\ pc = "roundtrip"
  /\ Len(input) > 255
  /\ Len(input) % size = 0
  /\ size > 1

\* C2 (error conditions): Unpad returns BadPadding exactly when the buffer is
\* empty, or its last byte is 0, or its last byte exceeds its length, or one
\* of its last padValue bytes differs from padValue; otherwise it returns no
\* error; it returns no other error.
C2_BadPaddingIff ==
  UnpadCalled =>
    LET n == Len(unpadIn)
    IN  /\ unpadRes.err \in {"nil", "BadPadding"}
        /\ unpadRes.err = "BadPadding" <=>
             \/ n = 0
             \/ unpadIn[n] = 0
             \/ unpadIn[n] > n
             \/ \E k \in 1..unpadIn[n] : unpadIn[n - k + 1] # unpadIn[n]

\* a rejection whose only cause is a filler byte that differs from padValue
C2_Witness ==
  /\ UnpadCalled
  /\ unpadRes.err = "BadPadding"
  /\ Len(unpadIn) > 0
  /\ unpadIn[Len(unpadIn)] \in 2..Len(unpadIn)
  /\ unpadIn[Len(unpadIn) - 1] = unpadIn[Len(unpadIn)]

\* C3 as stated: Unpad succeeds exactly when some block size S in 1..255
\* divides the buffer's length and some count c in 1..S, c <= min(255, length),
\* is the value of the last byte and of each of the last c bytes.
C3_AcceptsExactlyPadOutputs ==
  UnpadCalled =>
    LET n == Len(unpadIn)
    IN  unpadRes.err = "nil" <=>
          /\ n > 0
          /\ \E S \in 1..255 :
               /\ n % S = 0
               /\ \E c \in 1..Min(S, Min(255, n)) :
                    unpadIn[n] = c /\ TrailingRun(unpadIn, c)

\* C3 (amended): Unpad succeeds exactly when the buffer is not empty and some
\* count c in 1..min(255, length) is the value of the last byte and of each
\* of the last c bytes; no block size enters.
C3_AcceptsExactlyWellPadded ==
  UnpadCalled =>
    LET n == Len(unpadIn)
    IN  unpadRes.err = "nil" <=>
          /\ n > 0
          /\ \E c \in 1..Min(255, n) :
               unpadIn[n] = c /\ TrailingRun(unpadIn, c)

\* an accepted buffer that no Pad call returns: no block size in 2..255
\* divides its length and it ends in more than one filler byte
C3_Witness ==
  /\ UnpadOk
  /\ unpadIn[Len(unpadIn)] > 1
  /\ \A S \in 2..255 : Len(unpadIn) % S # 0

\* C4 (timing shape): on a non-empty buffer of length n the loop of Unpad
\* runs exactly min(255, n) iterations and reads the positions n-1, n-2, ...,
\* n-min(255, n) in that order, whatever the bytes are and whatever Unpad
\* returns.
C4_ReadsDependOnLengthOnly ==
  (UnpadCalled /\ Len(unpadIn) > 0) =>
    LET n == Len(unpadIn)
        m == Min(255, n)
    IN  /\ unpadRes.iters = m
        /\ Len(unpadRes.reads) = m
        /\ \A k \in 1..m : unpadRes.reads[k] = n - k

\* a buffer longer than the cap that is rejected, its second to last byte
\* already differing from a padValue of at least 2
C4_Witness ==
  /\ UnpadCalled
  /\ Len(unpadIn) > 255
  /\ unpadRes.err = "BadPadding"
  /\ unpadIn[Len(unpadIn)] >= 2
  /\ unpadIn[Len(unpadIn) - 1] # unpadIn[Len(unpadIn)]
  /\ unpadRes.iters = 255

\* C5 (length of the result of Pad): it is the smallest multiple of size that
\* is at least len(buf)+1; so it is a multiple of size and exceeds len(buf).
C5_PadLength ==
  PadReturned =>
    LET n == Len(padIn)
        L == Len(padRes.ret)
    IN  /\ L % size = 0
        /\ L >= n + 1
        /\ L > n
        /\ \A m \in (n + 1)..(L - 1) : m % size # 0

\* Pad of a non-empty buffer whose length is a multiple of the size
C5_Witness ==
  /\ PadReturned
  /\ Len(padIn) > 0
  /\ size > 1
  /\ Len(padIn) % size = 0

\* C6 (content of the result of Pad): it is buf followed by padCount bytes of
\* value padCount, padCount = size - (len(buf) mod size), which lies in
\* 1..size and below 256; a full block of size bytes of value size when
\* len(buf) is a multiple of size.
C6_PadContent ==
  PadReturned =>
    LET n == Len(padIn)
        c == size - (n % size)
        L == Len(padRes.ret)
    IN  /\ c \in 1..size
        /\ c <= 255
        /\ L = n + c
        /\ \A k \in 1..n : padRes.ret[k] = padIn[k]
        /\ \A k \in (n + 1)..L : padRes.ret[k] = c
        /\ (n % size = 0) => (c = size /\ L = n + size)

\* a full block of 255 bytes of value 255 appended
C6_Witness ==
  /\ PadReturned
  /\ size = 255
  /\ Len(padIn) = 255
  /\ Len(padRes.ret) = 510

\* C7 (result and frame of Unpad): on success the result is the first
\* n - padValue bytes of the input; the input buffer holds the same bytes
\* after the call as before it, on success and on failure.
C7_PrefixAndFrame ==
  UnpadCalled =>
    LET n == Len(unpadIn)
    IN  /\ unpadRes.buf = unpadIn
        /\ unpadRes.err = "nil" =>
             /\ Len(unpadRes.ret) = n - unpadIn[n]
             /\ \A k \in 1..(n - unpadIn[n]) : unpadRes.ret[k] = unpadIn[k]

\* a success that returns a non-empty prefix
C7_Witness ==
  /\ UnpadOk
  /\ unpadRes.ret # <<>>
  /\ unpadIn[Len(unpadIn)] > 1

\* C8 (precondition of Pad): a size outside 1..255 makes Pad panic and
\* return nothing; a size in 1..255 makes it return a buffer.
C8_PadPanicsIffBadSize ==
  PadCalled =>
    /\ (size < 1 \/ size > 255) => padRes = [kind |-> "panic"]
    /\ size \in 1..255 => (padRes.kind = "ok" /\ Len(padRes.ret) > 0)

\* the panic of size 256, the first size above the range
C8_Witness ==
  /\ pc = "padPanic"
  /\ size = 256
  /\ padRes.kind = "panic"

\* Unpad with every one of the n trailing positions examined (no cap)
RefUnpad(b) ==
  LET padLen == b[Len(b)]
      good   == /\ \A i \in 0..(Len(b) - 1) : (padLen <= i \/ b[Len(b) - i] = padLen)
                /\ 1 <= padLen
                /\ padLen <= Len(b)
  IN  IF good THEN [err |-> "nil", ret |-> SubSeq(b, 1, Len(b) - padLen)]
      ELSE [err |-> "BadPadding", ret |-> <<>>]

\* C9 (the cap changes nothing): on a non-empty buffer Unpad returns the
\* error and the prefix that the reference examining all n positions returns.
C9_CapChangesNothing ==
  (UnpadCalled /\ Len(unpadIn) > 0) =>
    /\ unpadRes.err = RefUnpad(unpadIn).err
    /\ unpadRes.ret = RefUnpad(unpadIn).ret

\* a buffer longer than the cap whose padValue is well above half the cap
C9_Witness ==
  /\ UnpadCalled
  /\ Len(unpadIn) > 255
  /\ unpadIn[Len(unpadIn)] = 255
  /\ unpadRes.iters < Len(unpadIn)

\* C10 (inverse round trip): when Unpad(input) succeeded with count p, size
\* divides len(input) and p <= size, Pad of the result equals input.
C10_InverseRoundTrip ==
  (/\ pc \in {"repadded", "repadPanic"}
   /\ size \in 1..255
   /\ Len(input) % size = 0
   /\ input[Len(input)] <= size) =>
    /\ padRes.kind = "ok"
    /\ padIn = unpadRes.ret
    /\ padRes.ret = input

\* the padding re-created is shorter than a block and the buffer longer
C10_Witness ==
  /\ pc = "repadded"
  /\ Len(input) % size = 0
  /\ input[Len(input)] < size
  /\ input[Len(input)] > 1
  /\ Len(input) > size

====
